---- MODULE Spec2Model ----
(***************************************************************************)
(* Model of tsbean-driver-mongo.                                           *)
(*                                                                         *)
(*  - MongoDriver.findStream / MongoDriver.findStreamSync (src/driver.ts): *)
(*    the two event handlers registered on the cursor stream, the promise  *)
(*    they settle, and the JavaScript job queue that runs the              *)
(*    continuations of their awaits.                                       *)
(*  - filterToMongo / negateMongoQuery (the filtering module): the filter  *)
(*    compiler as pure operators over query values.                        *)
(***************************************************************************)
EXTENDS Integers, Sequences, FiniteSets, TLC

VARIABLES
    mode,          \* "async": findStream, "sync": findStreamSync
    honoursPause,  \* whether the row source stops emitting while paused
    source,        \* the rows the cursor yields, in order
    emitted,       \* number of "data" events the stream has emitted
    flowing,       \* stream is flowing (FALSE after stream.pause())
    destroyed,     \* stream.destroy() was called by the driver
    endEmitted,    \* the stream emitted "end"
    errored,       \* the stream emitted "error"
    busyPromise,   \* the closure variable busyPromise: 0 (null) or a task id
    handlerTask,   \* per row: state of the task each(row) returned
    waiters,       \* per task: the awaits registered on it, in order
    microtasks,    \* the job queue: continuations ready to run, FIFO
    endPc,         \* position of the "end" handler
    status,        \* state of the promise findStream/findStreamSync returns
    reason,        \* its rejection reason
    handled,       \* rows passed to each(), in invocation order
    fpc,           \* filtering: "idle", "start" or "compiled"
    filter,        \* filtering: the GenericFilter given to filterToMongo
    compiled,      \* filtering: the query filterToMongo returned
    query,         \* filtering: the query object being negated
    negations,     \* filtering: number of negateMongoQuery calls applied
    other,         \* filtering: a second GenericFilter
    law,           \* filtering: "none", or the composite ("and", "or") negated
    lhs,           \* filtering: filterToMongo(not(law(filter, other)))
    rhs,           \* filtering: filterToMongo(dual(not(filter), not(other)))
    upc,           \* updateMany: "idle", "start", "returned" or "called"
    updated,       \* updateMany: the update descriptor, its entries in key order
    storeCall      \* updateMany: the update document given to db.updateMany

streamVars == <<mode, honoursPause, source, emitted, flowing, destroyed,
                endEmitted, errored, busyPromise, handlerTask, waiters,
                microtasks, endPc, status, reason, handled>>
filterVars == <<fpc, filter, compiled, query, negations>>
pairVars == <<other, law, lhs, rhs>>
updateVars == <<upc, updated, storeCall>>
vars == <<mode, honoursPause, source, emitted, flowing, destroyed,
          endEmitted, errored, busyPromise, handlerTask, waiters,
          microtasks, endPc, status, reason, handled,
          fpc, filter, compiled, query, negations,
          other, law, lhs, rhs, upc, updated, storeCall>>

\* Longest source sequence explored.
MaxRows == 4

Rows == 1..MaxRows

NoReason == [src |-> "none", row |-> 0]
\* The error thrown by, or the rejection reason of, the handler of a row.
HandlerErr(row) == [src |-> "handler", row |-> row]
\* The error the cursor stream emits when production fails.
ProductionErr == [src |-> "production", row |-> 0]

(***************************************************************************)
(* The promise returned by the streaming call                              *)
(***************************************************************************)

\* resolve() of the returned promise: a settled promise stays as it is.
resolve ==
    IF status = "pending"
    THEN status' = "resolved" /\ reason' = reason
    ELSE UNCHANGED <<status, reason>>

\* reject(ex) of the returned promise.
reject(ex) ==
    IF status = "pending"
    THEN status' = "rejected" /\ reason' = ex
    ELSE UNCHANGED <<status, reason>>

(***************************************************************************)
(* Calls the handlers make on the stream                                   *)
(***************************************************************************)

StreamPause_Omitted == flowing' = flowing
\* stream.pause()
StreamPause == flowing' = FALSE

StreamResume_Omitted == flowing' = flowing
\* stream.resume()
StreamResume == flowing' = TRUE

StreamDestroy_Omitted == destroyed' = destroyed
\* stream.destroy()
StreamDestroy == destroyed' = TRUE

InvokeEach_Twice(row) == handled' = Append(Append(handled, row), row)
\* each(row) is called: the row reaches the handler.
InvokeEach(row) == handled' = Append(handled, row)

(***************************************************************************)
(* The cursor stream (a Readable): when it may emit its events             *)
(***************************************************************************)

\* A "data" event can be emitted: rows are left, the stream is neither
\* destroyed nor ended, and it is flowing (a source that does not honour
\* the pause signal emits although paused).  A destroyed stream emits
\* nothing further.
CanEmitData ==
    /\ emitted < Len(source)
    /\ ~destroyed /\ ~errored /\ ~endEmitted
    /\ (flowing \/ ~honoursPause)

\* "end" is emitted once every row was emitted; it may arrive while the
\* handler of the last row is still outstanding.
CanEmitEnd ==
    /\ emitted = Len(source)
    /\ ~destroyed /\ ~errored /\ ~endEmitted

(***************************************************************************)
(* findStream: stream.on("data", async function (row) {...})               *)
(***************************************************************************)

\* The handler up to its await. threw: each(row) throws instead of
\* returning a task.
DataEventAsync(threw) ==
    /\ mode = "async"
    /\ CanEmitData
    /\ LET row == source[emitted + 1] IN
       /\ emitted' = emitted + 1
       /\ StreamPause
       /\ InvokeEach(row)
       /\ IF threw
          THEN /\ handlerTask' = [handlerTask EXCEPT ![row] = "threw"]
               /\ StreamDestroy
               /\ reject(HandlerErr(row))
               /\ UNCHANGED <<busyPromise, waiters>>
          ELSE /\ handlerTask' = [handlerTask EXCEPT ![row] = "pending"]
               /\ busyPromise' = row
               /\ waiters' = [waiters EXCEPT ![row] = <<"data">>]
               /\ UNCHANGED <<destroyed, status, reason>>
    /\ UNCHANGED <<mode, honoursPause, source, endEmitted, errored,
                   microtasks, endPc>>
    /\ UNCHANGED <<filterVars, pairVars, updateVars>>

\* The task returned by each(row) settles; the awaits registered on it are
\* queued as jobs in registration order.
HandlerSettle(p, ok) ==
    /\ handlerTask[p] = "pending"
    /\ handlerTask' = [handlerTask EXCEPT
                          ![p] = IF ok THEN "fulfilled" ELSE "rejected"]
    /\ microtasks' = microtasks \o
                       [i \in 1..Len(waiters[p]) |-> [k |-> waiters[p][i], p |-> p]]
    /\ waiters' = [waiters EXCEPT ![p] = <<>>]
    /\ UNCHANGED <<mode, honoursPause, source, emitted, flowing, destroyed,
                   endEmitted, errored, busyPromise, endPc, status, reason,
                   handled>>
    /\ UNCHANGED <<filterVars, pairVars, updateVars>>

DataContinue_SwallowsError(p) ==
    /\ busyPromise' = 0
    /\ StreamResume
    /\ UNCHANGED <<destroyed, status, reason>>
    /\ UNCHANGED endPc

DataContinue_NoDestroy(p) ==
    /\ IF handlerTask[p] = "rejected"
       THEN /\ reject(HandlerErr(p))
            /\ UNCHANGED <<busyPromise, flowing, destroyed>>
       ELSE /\ busyPromise' = 0
            /\ StreamResume
            /\ UNCHANGED <<destroyed, status, reason>>
    /\ UNCHANGED endPc

\* The "data" handler after its await.
DataContinue(p) ==
    /\ IF handlerTask[p] = "rejected"
       THEN /\ StreamDestroy
            /\ reject(HandlerErr(p))
            /\ UNCHANGED <<busyPromise, flowing>>
       ELSE /\ busyPromise' = 0
            /\ StreamResume
            /\ UNCHANGED <<destroyed, status, reason>>
    /\ UNCHANGED endPc

\* The "end" handler after its await.
EndContinue(p) ==
    /\ IF handlerTask[p] = "rejected"
       THEN reject(HandlerErr(p))
       ELSE resolve
    /\ endPc' = "resumed"
    /\ UNCHANGED <<busyPromise, flowing, destroyed>>

\* The job queue runs its first job.
RunMicrotask ==
    /\ microtasks # <<>>
    /\ LET job == Head(microtasks) IN
       IF job.k = "data" THEN DataContinue(job.p) ELSE EndContinue(job.p)
    /\ microtasks' = Tail(microtasks)
    /\ UNCHANGED <<mode, honoursPause, source, emitted, endEmitted, errored,
                   handlerTask, waiters, handled>>
    /\ UNCHANGED <<filterVars, pairVars, updateVars>>

EndAwaitsBusy_Never == FALSE
\* if (busyPromise) in the "end" handler
EndAwaitsBusy == busyPromise # 0

\* findStream: stream.on("end", async function () {...}) up to its await.
EndEventAsync ==
    /\ mode = "async"
    /\ CanEmitEnd
    /\ endEmitted' = TRUE
    /\ IF EndAwaitsBusy
       THEN /\ endPc' = "awaiting"
            /\ IF handlerTask[busyPromise] = "pending"
               THEN /\ waiters' = [waiters EXCEPT
                                     ![busyPromise] = Append(@, "end")]
                    /\ UNCHANGED microtasks
               ELSE /\ microtasks' = Append(microtasks,
                                            [k |-> "end", p |-> busyPromise])
                    /\ UNCHANGED waiters
            /\ UNCHANGED <<status, reason>>
       ELSE /\ endPc' = "direct"
            /\ resolve
            /\ UNCHANGED <<waiters, microtasks>>
    /\ UNCHANGED <<mode, honoursPause, source, emitted, flowing, destroyed,
                   errored, busyPromise, handlerTask, handled>>
    /\ UNCHANGED <<filterVars, pairVars, updateVars>>

(***************************************************************************)
(* findStreamSync                                                          *)
(***************************************************************************)

\* stream.on("data", async function (row) {...}): each(row) runs inline.
DataEventSync(threw) ==
    /\ mode = "sync"
    /\ CanEmitData
    /\ LET row == source[emitted + 1] IN
       /\ emitted' = emitted + 1
       /\ InvokeEach(row)
       /\ IF threw
          THEN /\ handlerTask' = [handlerTask EXCEPT ![row] = "threw"]
               /\ StreamDestroy
               /\ reject(HandlerErr(row))
          ELSE /\ handlerTask' = [handlerTask EXCEPT ![row] = "fulfilled"]
               /\ UNCHANGED <<destroyed, status, reason>>
    /\ UNCHANGED <<mode, honoursPause, source, flowing, endEmitted, errored,
                   busyPromise, waiters, microtasks, endPc>>
    /\ UNCHANGED <<filterVars, pairVars, updateVars>>

\* stream.on("end", async function () { resolve(); })
EndEventSync ==
    /\ mode = "sync"
    /\ CanEmitEnd
    /\ endEmitted' = TRUE
    /\ endPc' = "direct"
    /\ resolve
    /\ UNCHANGED <<mode, honoursPause, source, emitted, flowing, destroyed,
                   errored, busyPromise, handlerTask, waiters, microtasks,
                   handled>>
    /\ UNCHANGED <<filterVars, pairVars, updateVars>>

(***************************************************************************)
(* Production failure: the stream emits "error".  Neither findStream nor   *)
(* findStreamSync registers a listener for it, so no driver state changes. *)
(***************************************************************************)
StreamError ==
    /\ ~destroyed /\ ~errored /\ ~endEmitted
    /\ errored' = TRUE
    /\ UNCHANGED <<mode, honoursPause, source, emitted, flowing, destroyed,
                   endEmitted, busyPromise, handlerTask, waiters, microtasks,
                   endPc, status, reason, handled>>
    /\ UNCHANGED <<filterVars, pairVars, updateVars>>

\* State when the promise executor has registered both handlers.
StreamInit(hp) ==
    /\ mode \in {"async", "sync"}
    /\ honoursPause \in hp
    /\ source \in {[i \in 1..n |-> i] : n \in 0..MaxRows}
    /\ emitted = 0
    /\ flowing = TRUE
    /\ destroyed = FALSE
    /\ endEmitted = FALSE
    /\ errored = FALSE
    /\ busyPromise = 0
    /\ handlerTask = [r \in Rows |-> "none"]
    /\ waiters = [r \in Rows |-> <<>>]
    /\ microtasks = <<>>
    /\ endPc = "notrun"
    /\ status = "pending"
    /\ reason = NoReason
    /\ handled = <<>>

FilterIdle ==
    /\ fpc = "idle"
    /\ filter = [operation |-> "null"]
    /\ compiled = [t |-> "query", entries |-> <<>>]
    /\ query = [t |-> "query", entries |-> <<>>]
    /\ negations = 0

\* No second filter, and no updateMany call.
PairIdle ==
    /\ other = [operation |-> "null"]
    /\ law = "none"
    /\ lhs = [t |-> "query", entries |-> <<>>]
    /\ rhs = [t |-> "query", entries |-> <<>>]

UpdateIdle ==
    /\ upc = "idle"
    /\ updated = <<>>
    /\ storeCall = <<>>

Init == StreamInit({TRUE}) /\ FilterIdle /\ PairIdle /\ UpdateIdle

DataEvent == \E threw \in BOOLEAN : DataEventAsync(threw) \/ DataEventSync(threw)
EndEvent == EndEventAsync \/ EndEventSync
Settle == \E p \in Rows, ok \in BOOLEAN : HandlerSettle(p, ok)

Next ==
    \/ \E threw \in BOOLEAN : DataEventAsync(threw)
    \/ \E threw \in BOOLEAN : DataEventSync(threw)
    \/ EndEventAsync
    \/ EndEventSync
    \/ \E p \in Rows, ok \in BOOLEAN : HandlerSettle(p, ok)
    \/ RunMicrotask
    \/ StreamError

\* Streaming over a Readable, which honours pause().
Spec == Init /\ [][Next]_vars

\* The same with a row source that may ignore the pause signal.
InitNoPause == StreamInit({FALSE}) /\ FilterIdle /\ PairIdle /\ UpdateIdle
SpecNoPause == InitNoPause /\ [][Next]_vars

\* Every event that can be emitted is emitted, every handler task settles
\* and the job queue is drained.  Production failure is not forced.
FairSpec ==
    /\ Init /\ [][Next]_vars
    /\ WF_vars(DataEvent)
    /\ WF_vars(EndEvent)
    /\ WF_vars(Settle)
    /\ WF_vars(RunMicrotask)

(***************************************************************************)
(* Properties of the streaming calls                                       *)
(***************************************************************************)

IsPrefix(s, t) ==
    /\ Len(s) <= Len(t)
    /\ \A i \in 1..Len(s) : s[i] = t[i]

Pending == {p \in Rows : handlerTask[p] = "pending"}
HandlerFailed(p) == handlerTask[p] \in {"rejected", "threw"}
DataJobQueued(p) ==
    \E i \in 1..Len(microtasks) : microtasks[i] = [k |-> "data", p |-> p]
LastHandled == handled[Len(handled)]

\* C1: in findStream at most one row handler is in flight: when the handler
\* of a row is invoked, the task of every earlier row has settled, so only
\* the row dispatched last can have a pending task.
C1_OneHandlerInFlight ==
    mode = "async" =>
        /\ Cardinality(Pending) <= 1
        /\ \A i \in 1..Len(handled) :
              i < Len(handled) => handlerTask[handled[i]] # "pending"

\* C1 witness: a second row was dispatched and its handler is in flight.
C1_Witness ==
    /\ mode = "async"
    /\ Len(handled) >= 2
    /\ handlerTask[LastHandled] = "pending"

\* C2: in findStream, once the handler of row i failed, no later row is
\* ever dispatched, the task never resolves, and as soon as the "data"
\* handler has seen the failure the stream is destroyed and the task is
\* rejected with exactly that handler's error.
C2_HandlerFailureAborts ==
    mode = "async" =>
        \A p \in Rows :
            HandlerFailed(p) =>
                /\ LastHandled = p
                /\ status # "resolved"
                /\ ~DataJobQueued(p) =>
                      /\ destroyed
                      /\ status = "rejected"
                      /\ reason = HandlerErr(p)

\* C2 witness: the handler failed on a row that is not the last one and
\* the task was rejected.
C2_Witness ==
    /\ mode = "async"
    /\ \E p \in Rows :
          /\ handlerTask[p] = "rejected"
          /\ p < Len(source)
          /\ status = "rejected"

\* C3: in both modes the rows passed to the handler are always a prefix of
\* the source sequence, and when the task resolves they are the whole
\* sequence: same order, each row once.
C3_InOrderExactlyOnce ==
    /\ IsPrefix(handled, source)
    /\ status = "resolved" => handled = source

\* C3 witness: a call over several rows resolved.
C3_Witness ==
    /\ status = "resolved"
    /\ Len(source) >= 3
    /\ handled = source

\* C4: in findStream the task is never resolved while a dispatched handler
\* is pending or has failed; when "end" arrives while a handler task is
\* outstanding the task stays unresolved until that task settles, and is
\* rejected with its failure if it fails.
C4_EndWaitsForHandler ==
    mode = "async" =>
        /\ status = "resolved" =>
              \A p \in Rows : handlerTask[p] \notin {"pending", "rejected", "threw"}
        /\ endPc = "awaiting" => status # "resolved"
        /\ (endPc = "resumed" /\ handlerTask[LastHandled] = "rejected") =>
              (status = "rejected" /\ reason = HandlerErr(LastHandled))

\* C4 witness: "end" arrived during the last handler, waited, then resolved.
C4_Witness ==
    /\ mode = "async"
    /\ endPc = "resumed"
    /\ status = "resolved"

\* C5: findStream over a source that ignores pause(): handlers still run
\* one at a time, in source order, and the task does not resolve before
\* the last handler has settled.
C5_SequentialWithoutPause ==
    mode = "async" =>
        /\ Cardinality(Pending) <= 1
        /\ IsPrefix(handled, source)
        /\ status = "resolved" => Pending = {}

\* C6: when the stream emits "error", the task is rejected with that error.
C6_ProductionErrorRejects ==
    errored => (status = "rejected" /\ reason = ProductionErr)

\* C7: in findStreamSync, when the handler throws on row i the stream is
\* destroyed, the task is rejected with that error and no later row is
\* dispatched.
C7_SyncThrowAborts ==
    mode = "sync" =>
        \A p \in Rows :
            handlerTask[p] = "threw" =>
                /\ destroyed
                /\ status = "rejected"
                /\ reason = HandlerErr(p)
                /\ LastHandled = p

\* C7 witness: the handler threw on a row that is not the last one.
C7_Witness ==
    /\ mode = "sync"
    /\ \E p \in Rows : handlerTask[p] = "threw" /\ p < Len(source)

\* C8 as claimed: whenever the call is terminal (resolved or rejected) the
\* driver has closed the cursor stream.
C8_TerminalImpliesClosed ==
    status # "pending" => destroyed

\* C8 as amended: whenever the call is rejected the driver has destroyed
\* the stream, also when the rejection is issued from the "end" handler;
\* a resolved call has seen "end", the driver itself closing nothing.
C8_FailedImpliesDestroyed ==
    /\ status = "rejected" => destroyed
    /\ status = "resolved" => endEmitted

\* C8 witness: the "end" handler waited for a handler that failed.
C8_Witness ==
    /\ status = "rejected"
    /\ endPc = "resumed"

\* C9: with a finite source, no production failure and handler tasks that
\* settle, every streaming call eventually settles, and a settled call
\* keeps its outcome.
C9_SettlesOnceAndStays ==
    /\ <>(status # "pending" \/ errored)
    /\ [][status # "pending" => (status' = status /\ reason' = reason)]_vars

\* C9 witness: a call over several rows is settled and nothing is left to run.
C9_Witness ==
    /\ status # "pending"
    /\ ~errored
    /\ Len(source) >= 2
    /\ Pending = {}
    /\ microtasks = <<>>
    /\ mode = "async"

(***************************************************************************)
(* Filtering: values                                                       *)
(*                                                                         *)
(* A JavaScript object is the sequence of its entries in key order.        *)
(*   query            [t |-> "query", entries |-> <<[key, val], ...>>]     *)
(*   {$op: payload}   [t |-> "obj", op |-> "$op", arg |-> payload]         *)
(*   [q1, q2, ...]    [t |-> "arr", items |-> <<q1, q2, ...>>]             *)
(* Payloads are tagged by their JavaScript type.                           *)
(***************************************************************************)

Num(n) == [t |-> "num", n |-> n]
Str(x) == [t |-> "str", s |-> x]
Bool(b) == [t |-> "bool", b |-> b]
Null == [t |-> "null"]
List(xs) == [t |-> "list", items |-> xs]

Obj(op, arg) == [t |-> "obj", op |-> op, arg |-> arg]
Arr(items) == [t |-> "arr", items |-> items]
Query(entries) == [t |-> "query", entries |-> entries]

\* Object.create(null)
EmptyQuery == Query(<<>>)
\* An object with the single property key: val.
Single(key, val) == Query(<<[key |-> key, val |-> val]>>)

\* Object.keys(query)
Keys(q) == [i \in 1..Len(q.entries) |-> q.entries[i].key]
HasKey(q, key) == \E i \in 1..Len(q.entries) : q.entries[i].key = key
\* query[key]
Get(q, key) ==
    LET i == CHOOSE j \in 1..Len(q.entries) : q.entries[j].key = key
    IN q.entries[i].val
\* query[key] = val: an existing property keeps its place, a new one is last.
Set(q, key, val) ==
    IF HasKey(q, key)
    THEN Query([i \in 1..Len(q.entries) |->
                   IF q.entries[i].key = key
                   THEN [key |-> key, val |-> val]
                   ELSE q.entries[i]])
    ELSE Query(Append(q.entries, [key |-> key, val |-> val]))
\* delete query[key]
Delete(q, key) ==
    Query(SelectSeq(q.entries, LAMBDA e : e.key # key))

\* The keys of this model that start with "$".
DollarKeys == {"$and", "$or", "$not", "$nor", "$eq", "$ne", "$gt", "$lt",
               "$gte", "$lte", "$in", "$regex", "$exists"}
\* key.startsWith("$")
StartsWithDollar(key) == key \in DollarKeys

(***************************************************************************)
(* negateMongoQuery                                                        *)
(***************************************************************************)

RECURSIVE negateMongoQuery(_)
RECURSIVE NegateKeys(_, _, _)

NegateKeys_NoSwap(q, keys, i) ==
    IF i > Len(keys) THEN q
    ELSE LET key == keys[i] IN
         IF ~StartsWithDollar(key)
         THEN NegateKeys(Set(q, key, Obj("$not", Get(q, key))), keys, i + 1)
         ELSE IF key \in {"$and", "$or"}
         THEN LET items == Get(q, key).items
                  negated == [j \in 1..Len(items) |-> negateMongoQuery(items[j])]
              IN NegateKeys(Set(q, key, Arr(negated)), keys, i + 1)
         ELSE IF key = "$not"
         THEN Get(q, key)
         ELSE NegateKeys(q, keys, i + 1)

NegateKeys_FieldKept(q, keys, i) ==
    IF i > Len(keys) THEN q
    ELSE LET key == keys[i] IN
         IF key = "$and"
         THEN LET items == Get(q, "$and").items
                  negated == [j \in 1..Len(items) |-> negateMongoQuery(items[j])]
              IN NegateKeys(Delete(Set(q, "$or", Arr(negated)), "$and"),
                            keys, i + 1)
         ELSE IF key = "$or"
         THEN LET items == Get(q, "$or").items
                  negated == [j \in 1..Len(items) |-> negateMongoQuery(items[j])]
              IN NegateKeys(Delete(Set(q, "$and", Arr(negated)), "$or"),
                            keys, i + 1)
         ELSE IF key = "$not"
         THEN Get(q, key)
         ELSE NegateKeys(q, keys, i + 1)

NegateKeys_ChildrenKept(q, keys, i) ==
    IF i > Len(keys) THEN q
    ELSE LET key == keys[i] IN
         IF ~StartsWithDollar(key)
         THEN NegateKeys(Set(q, key, Obj("$not", Get(q, key))), keys, i + 1)
         ELSE IF key = "$and"
         THEN NegateKeys(Delete(Set(q, "$or", Get(q, "$and")), "$and"),
                         keys, i + 1)
         ELSE IF key = "$or"
         THEN NegateKeys(Delete(Set(q, "$and", Get(q, "$or")), "$or"),
                         keys, i + 1)
         ELSE IF key = "$not"
         THEN Get(q, key)
         ELSE NegateKeys(q, keys, i + 1)

\* The loop over the keys read at entry, from position i on, on the object
\* as modified so far; the value returned by negateMongoQuery.
NegateKeys(q, keys, i) ==
    IF i > Len(keys) THEN q
    ELSE LET key == keys[i] IN
         IF ~StartsWithDollar(key)
         THEN NegateKeys(Set(q, key, Obj("$not", Get(q, key))), keys, i + 1)
         ELSE IF key = "$and"
         THEN LET items == Get(q, "$and").items
                  negated == [j \in 1..Len(items) |-> negateMongoQuery(items[j])]
              IN NegateKeys(Delete(Set(q, "$or", Arr(negated)), "$and"),
                            keys, i + 1)
         ELSE IF key = "$or"
         THEN LET items == Get(q, "$or").items
                  negated == [j \in 1..Len(items) |-> negateMongoQuery(items[j])]
              IN NegateKeys(Delete(Set(q, "$and", Arr(negated)), "$or"),
                            keys, i + 1)
         ELSE IF key = "$not"
         THEN Get(q, key)
         ELSE NegateKeys(q, keys, i + 1)

negateMongoQuery(q) == NegateKeys(q, Keys(q), 1)

(***************************************************************************)
(* filterToMongo                                                           *)
(***************************************************************************)

\* The null filter.
NullFilter == [operation |-> "null"]

RECURSIVE filterToMongo(_)

filterToMongo_AndReversed(f) ==
    IF f = NullFilter THEN EmptyQuery
    ELSE IF f.operation = "and"
    THEN Single("$and", Arr([i \in 1..Len(f.children) |->
                                filterToMongo(f.children[Len(f.children) + 1 - i])]))
    ELSE IF f.operation = "or"
    THEN Single("$or", Arr([i \in 1..Len(f.children) |->
                               filterToMongo(f.children[i])]))
    ELSE IF f.operation = "not"
    THEN negateMongoQuery(filterToMongo(f.child))
    ELSE IF f.operation = "regex"
    THEN Single(f.key, Obj("$regex", f.regexp))
    ELSE IF f.operation = "in"
    THEN Single(f.key, Obj("$in", f.values))
    ELSE IF f.operation = "exists"
    THEN IF f.exists
         THEN Single("$and", Arr(<<Single(f.key, Obj("$exists", Bool(TRUE))),
                                   Single(f.key, Obj("$ne", Null))>>))
         ELSE Single("$or", Arr(<<Single(f.key, Obj("$exists", Bool(FALSE))),
                                  Single(f.key, Obj("$eq", Null))>>))
    ELSE IF f.operation = "eq" THEN Single(f.key, Obj("$eq", f.value))
    ELSE IF f.operation = "ne" THEN Single(f.key, Obj("$ne", f.value))
    ELSE IF f.operation = "gt" THEN Single(f.key, Obj("$gt", f.value))
    ELSE IF f.operation = "lt" THEN Single(f.key, Obj("$lt", f.value))
    ELSE IF f.operation = "gte" THEN Single(f.key, Obj("$gte", f.value))
    ELSE IF f.operation = "lte" THEN Single(f.key, Obj("$lte", f.value))
    ELSE EmptyQuery

filterToMongo_KeyPresence(f) ==
    IF f = NullFilter THEN EmptyQuery
    ELSE IF f.operation = "and"
    THEN Single("$and", Arr([i \in 1..Len(f.children) |->
                                filterToMongo(f.children[i])]))
    ELSE IF f.operation = "or"
    THEN Single("$or", Arr([i \in 1..Len(f.children) |->
                               filterToMongo(f.children[i])]))
    ELSE IF f.operation = "not"
    THEN negateMongoQuery(filterToMongo(f.child))
    ELSE IF f.operation = "regex"
    THEN Single(f.key, Obj("$regex", f.regexp))
    ELSE IF f.operation = "in"
    THEN Single(f.key, Obj("$in", f.values))
    ELSE IF f.operation = "exists"
    THEN Single(f.key, Obj("$exists", Bool(f.exists)))
    ELSE IF f.operation = "eq" THEN Single(f.key, Obj("$eq", f.value))
    ELSE IF f.operation = "ne" THEN Single(f.key, Obj("$ne", f.value))
    ELSE IF f.operation = "gt" THEN Single(f.key, Obj("$gt", f.value))
    ELSE IF f.operation = "lt" THEN Single(f.key, Obj("$lt", f.value))
    ELSE IF f.operation = "gte" THEN Single(f.key, Obj("$gte", f.value))
    ELSE IF f.operation = "lte" THEN Single(f.key, Obj("$lte", f.value))
    ELSE EmptyQuery

filterToMongo(f) ==
    IF f = NullFilter THEN EmptyQuery
    ELSE IF f.operation = "and"
    THEN Single("$and", Arr([i \in 1..Len(f.children) |->
                                filterToMongo(f.children[i])]))
    ELSE IF f.operation = "or"
    THEN Single("$or", Arr([i \in 1..Len(f.children) |->
                               filterToMongo(f.children[i])]))
    ELSE IF f.operation = "not"
    THEN negateMongoQuery(filterToMongo(f.child))
    ELSE IF f.operation = "regex"
    THEN Single(f.key, Obj("$regex", f.regexp))
    ELSE IF f.operation = "in"
    THEN Single(f.key, Obj("$in", f.values))
    ELSE IF f.operation = "exists"
    THEN IF f.exists
         THEN Single("$and", Arr(<<Single(f.key, Obj("$exists", Bool(TRUE))),
                                   Single(f.key, Obj("$ne", Null))>>))
         ELSE Single("$or", Arr(<<Single(f.key, Obj("$exists", Bool(FALSE))),
                                  Single(f.key, Obj("$eq", Null))>>))
    ELSE IF f.operation = "eq" THEN Single(f.key, Obj("$eq", f.value))
    ELSE IF f.operation = "ne" THEN Single(f.key, Obj("$ne", f.value))
    ELSE IF f.operation = "gt" THEN Single(f.key, Obj("$gt", f.value))
    ELSE IF f.operation = "lt" THEN Single(f.key, Obj("$lt", f.value))
    ELSE IF f.operation = "gte" THEN Single(f.key, Obj("$gte", f.value))
    ELSE IF f.operation = "lte" THEN Single(f.key, Obj("$lte", f.value))
    ELSE EmptyQuery

(***************************************************************************)
(* The filters explored: every filter tree of at most MaxNodes nodes, and  *)
(* some deeper ones                                                        *)
(***************************************************************************)

\* Largest number of nodes of a filter tree.
MaxNodes == 3
\* Number of negateMongoQuery calls applied to a compiled query.
MaxNegations == 2

Compare(op, key, value) == [operation |-> op, key |-> key, value |-> value]
In(key, values) == [operation |-> "in", key |-> key, values |-> List(values)]
Regex(key, re) == [operation |-> "regex", key |-> key, regexp |-> Str(re)]
Exists(key, e) == [operation |-> "exists", key |-> key, exists |-> e]
Not(f) == [operation |-> "not", child |-> f]
And(fs) == [operation |-> "and", children |-> fs]
Or(fs) == [operation |-> "or", children |-> fs]

LeafFilters ==
    {Compare(op, "age", Num(5)) : op \in {"eq", "ne", "gt", "lt", "gte", "lte"}}
    \cup {Compare("eq", "age", Num(10)),
          In("status", <<Str("a"), Str("b")>>),
          Regex("status", "^a"),
          Exists("age", TRUE), Exists("age", FALSE),
          \* a tag filterToMongo has no case for
          Compare("like", "age", Num(5))}

RECURSIVE FiltersOfSize(_)
RECURSIVE ChildrenOfSize(_)

\* The sequences of filters whose trees have n nodes together.
ChildrenOfSize(n) ==
    IF n = 0 THEN {<<>>}
    ELSE UNION {{<<f>> \o rest : f \in FiltersOfSize(k),
                                 rest \in ChildrenOfSize(n - k)} : k \in 1..n}

\* The filters whose tree has exactly n nodes.
FiltersOfSize(n) ==
    IF n = 1
    THEN LeafFilters \cup {And(<<>>), Or(<<>>)}
    ELSE {Not(f) : f \in FiltersOfSize(n - 1)}
         \cup {And(fs) : fs \in ChildrenOfSize(n - 1)}
         \cup {Or(fs) : fs \in ChildrenOfSize(n - 1)}

\* Deeper trees: negated composites and repeated negation.
DeepFilters ==
    {Not(Or(<<Compare("eq", "age", Num(5)), Compare("eq", "age", Num(10))>>)),
     Not(And(<<Compare("gt", "age", Num(5)), In("status", <<Str("a"), Str("b")>>)>>)),
     Not(Not(Not(Compare("eq", "age", Num(5))))),
     Not(Not(Or(<<Exists("age", TRUE), Regex("status", "^a")>>))),
     And(<<Not(Exists("age", FALSE)), Or(<<Not(Compare("lt", "age", Num(5)))>>)>>)}

Filters ==
    {NullFilter} \cup DeepFilters
    \cup UNION {FiltersOfSize(n) : n \in 1..MaxNodes}

(***************************************************************************)
(* Filtering as a state machine: compile a filter, then negate the query   *)
(***************************************************************************)

StreamIdle ==
    /\ mode = "async"
    /\ honoursPause = TRUE
    /\ source = <<>>
    /\ emitted = 0
    /\ flowing = FALSE
    /\ destroyed = FALSE
    /\ endEmitted = FALSE
    /\ errored = FALSE
    /\ busyPromise = 0
    /\ handlerTask = [r \in Rows |-> "none"]
    /\ waiters = [r \in Rows |-> <<>>]
    /\ microtasks = <<>>
    /\ endPc = "notrun"
    /\ status = "idle"
    /\ reason = NoReason
    /\ handled = <<>>

FilterInit ==
    /\ fpc = "start"
    /\ filter \in Filters
    /\ compiled = EmptyQuery
    /\ query = EmptyQuery
    /\ negations = 0

\* query = filterToMongo(filter)
Compile ==
    /\ fpc = "start"
    /\ fpc' = "compiled"
    /\ compiled' = filterToMongo(filter)
    /\ query' = filterToMongo(filter)
    /\ UNCHANGED <<filter, negations>>
    /\ UNCHANGED <<streamVars, pairVars, updateVars>>

\* query = negateMongoQuery(query)
Negate ==
    /\ fpc = "compiled"
    /\ negations < MaxNegations
    /\ query' = negateMongoQuery(query)
    /\ negations' = negations + 1
    /\ UNCHANGED <<fpc, filter, compiled>>
    /\ UNCHANGED <<streamVars, pairVars, updateVars>>

InitFilter == StreamIdle /\ FilterInit /\ PairIdle /\ UpdateIdle
NextFilter == Compile \/ Negate
SpecFilter == InitFilter /\ [][NextFilter]_vars

\* C10: negating twice a query produced by filterToMongo gives that query.
C10_DoubleNegationIdentity ==
    (fpc = "compiled" /\ negations = 2) => query = compiled

(***************************************************************************)
(* Negated composites: not(and(a, b)) against or(not(a), not(b)), and the  *)
(* same with and / or exchanged                                            *)
(***************************************************************************)

\* The filters a and b are drawn from.
PairFilters ==
    {NullFilter} \cup DeepFilters \cup FiltersOfSize(1) \cup FiltersOfSize(2)

PairInit ==
    /\ fpc = "start"
    /\ filter \in PairFilters
    /\ compiled = EmptyQuery
    /\ query = EmptyQuery
    /\ negations = 0
    /\ other \in PairFilters
    /\ law = "none"
    /\ lhs = EmptyQuery
    /\ rhs = EmptyQuery

\* filterToMongo(not(and(a, b))) and filterToMongo(or(not(a), not(b)))
NegateAnd ==
    /\ law = "none"
    /\ law' = "and"
    /\ lhs' = filterToMongo(Not(And(<<filter, other>>)))
    /\ rhs' = filterToMongo(Or(<<Not(filter), Not(other)>>))
    /\ UNCHANGED <<other, filterVars, streamVars, updateVars>>

\* filterToMongo(not(or(a, b))) and filterToMongo(and(not(a), not(b)))
NegateOr ==
    /\ law = "none"
    /\ law' = "or"
    /\ lhs' = filterToMongo(Not(Or(<<filter, other>>)))
    /\ rhs' = filterToMongo(And(<<Not(filter), Not(other)>>))
    /\ UNCHANGED <<other, filterVars, streamVars, updateVars>>

InitDeMorgan == StreamIdle /\ PairInit /\ UpdateIdle
NextDeMorgan == NegateAnd \/ NegateOr
SpecDeMorgan == InitDeMorgan /\ [][NextDeMorgan]_vars

\* C11: De Morgan: the query compiled from not(and(a, b)) is the query
\* compiled from or(not(a), not(b)), and the query compiled from
\* not(or(a, b)) is the query compiled from and(not(a), not(b)).
C11_DeMorgan ==
    law # "none" => lhs = rhs

\* C11 witness: not(and(eq, in)) was compiled to an $or of two negated
\* field clauses.
C11_Witness ==
    /\ law = "and"
    /\ filter = Compare("eq", "age", Num(5))
    /\ other = In("status", <<Str("a"), Str("b")>>)
    /\ lhs = Single("$or", Arr(<<
          Single("age", Obj("$not", Obj("$eq", Num(5)))),
          Single("status", Obj("$not", Obj("$in", List(<<Str("a"), Str("b")>>))))>>))

(***************************************************************************)
(* The store's matching of a compiled query against a document             *)
(*                                                                         *)
(* A document gives each field a value: a number, a string, null, or       *)
(* Missing when the document has no such field.                            *)
(***************************************************************************)

Missing == [t |-> "missing"]

Docs ==
    [age : {Missing, Null, Num(4), Num(5), Num(6), Num(10), Str("a")},
     status : {Missing, Null, Str("a"), Str("ab"), Str("b"), Num(5)}]

\* The strings a pattern matches, for the patterns of LeafFilters.
RegexMatches(re, x) == re = "^a" /\ x \in {"a", "ab"}

\* {$eq: arg}: null matches a null and a missing field.
MatchesEq(arg, v) ==
    IF arg = Null THEN v \in {Null, Missing} ELSE v = arg

\* A comparison matches values of the type of its operand only.
BothNum(arg, v) == arg.t = "num" /\ v.t = "num"

RECURSIVE MatchesExpr(_, _)
\* The operator object e of a field clause against the field's value v.
MatchesExpr(e, v) ==
    IF e.op = "$eq" THEN MatchesEq(e.arg, v)
    ELSE IF e.op = "$ne" THEN ~MatchesEq(e.arg, v)
    ELSE IF e.op = "$gt" THEN BothNum(e.arg, v) /\ v.n > e.arg.n
    ELSE IF e.op = "$lt" THEN BothNum(e.arg, v) /\ v.n < e.arg.n
    ELSE IF e.op = "$gte" THEN BothNum(e.arg, v) /\ v.n >= e.arg.n
    ELSE IF e.op = "$lte" THEN BothNum(e.arg, v) /\ v.n <= e.arg.n
    ELSE IF e.op = "$in"
    THEN \E i \in 1..Len(e.arg.items) : MatchesEq(e.arg.items[i], v)
    ELSE IF e.op = "$regex" THEN v.t = "str" /\ RegexMatches(e.arg.s, v.s)
    ELSE IF e.op = "$exists" THEN (v # Missing) = e.arg.b
    ELSE IF e.op = "$not" THEN ~MatchesExpr(e.arg, v)
    ELSE FALSE

RECURSIVE Matches(_, _)
\* The query q against the document d: every top-level clause must match.
Matches(q, d) ==
    \A i \in 1..Len(q.entries) :
        LET key == q.entries[i].key
            val == q.entries[i].val
        IN IF key = "$and"
           THEN \A j \in 1..Len(val.items) : Matches(val.items[j], d)
           ELSE IF key = "$or"
           THEN \E j \in 1..Len(val.items) : Matches(val.items[j], d)
           ELSE MatchesExpr(val, d[key])

(***************************************************************************)
(* Properties of the filter compiler                                       *)
(***************************************************************************)

\* not(or(eq("age", 5), eq("age", 10)))
NeitherFiveNorTen ==
    Not(Or(<<Compare("eq", "age", Num(5)), Compare("eq", "age", Num(10))>>))

\* C12 as claimed: not(or(eq("age",5), eq("age",10))) compiles to the $and
\* of {age: {$ne: 5}} and {age: {$ne: 10}}.
C12_CompilesToNe ==
    (fpc = "compiled" /\ filter = NeitherFiveNorTen) =>
        compiled = Single("$and", Arr(<<Single("age", Obj("$ne", Num(5))),
                                        Single("age", Obj("$ne", Num(10)))>>))

\* C12 as amended: it compiles to the $and of {age: {$not: {$eq: 5}}} and
\* {age: {$not: {$eq: 10}}}, which matches the documents the $ne form
\* matches: those whose age is neither 5 nor 10.
C12_CompilesToNotEq ==
    (fpc = "compiled" /\ filter = NeitherFiveNorTen) =>
        /\ compiled =
             Single("$and", Arr(<<Single("age", Obj("$not", Obj("$eq", Num(5)))),
                                  Single("age", Obj("$not", Obj("$eq", Num(10))))>>))
        /\ \A d \in Docs :
              /\ Matches(compiled, d) <=> d.age \notin {Num(5), Num(10)}
              /\ Matches(compiled, d) <=>
                    Matches(Single("$and", Arr(<<Single("age", Obj("$ne", Num(5))),
                                                 Single("age", Obj("$ne", Num(10)))>>)), d)

\* C12 witness: the filter of the scenario has been compiled.
C12_Witness ==
    /\ fpc = "compiled"
    /\ filter = NeitherFiveNorTen
    /\ negations = 0

\* The tags filterToMongo has a case for.
KnownTags == {"and", "or", "not", "regex", "in", "exists",
              "eq", "ne", "gt", "lt", "gte", "lte"}

RECURSIVE Malformed(_)
\* A filter tree with a node of unknown tag, or an and / or node without
\* children.
Malformed(f) ==
    /\ f # NullFilter
    /\ \/ f.operation \notin KnownTags
       \/ /\ f.operation \in {"and", "or"}
          /\ \/ f.children = <<>>
             \/ \E i \in 1..Len(f.children) : Malformed(f.children[i])
       \/ /\ f.operation = "not"
          /\ Malformed(f.child)

\* C13: filterToMongo never returns a query for a malformed filter tree
\* (unknown tag, or and / or without children): it fails instead.
C13_MalformedRejected ==
    Malformed(filter) => fpc # "compiled"

\* The native operator of a comparison tag.
NativeOp(tag) ==
    CASE tag = "eq" -> "$eq" [] tag = "ne" -> "$ne"
      [] tag = "gt" -> "$gt" [] tag = "lt" -> "$lt"
      [] tag = "gte" -> "$gte" [] tag = "lte" -> "$lte"

RECURSIVE NotFree(_)
\* A well-formed filter without a not node: null, a leaf of a known tag,
\* or an and / or of such filters, at least one.
NotFree(f) ==
    \/ f = NullFilter
    \/ /\ f.operation \in KnownTags \ {"not", "and", "or"}
    \/ /\ f.operation \in {"and", "or"}
       /\ f.children # <<>>
       /\ \A i \in 1..Len(f.children) :
             f.children[i] # NullFilter /\ NotFree(f.children[i])

RECURSIVE NativeShape(_)
\* The native shape the operator vocabulary gives a filter without not.
NativeShape(f) ==
    IF f = NullFilter THEN Query(<<>>)
    ELSE IF f.operation \in {"eq", "ne", "gt", "lt", "gte", "lte"}
    THEN Query(<<[key |-> f.key,
                  val |-> [t |-> "obj", op |-> NativeOp(f.operation),
                           arg |-> f.value]]>>)
    ELSE IF f.operation = "in"
    THEN Query(<<[key |-> f.key,
                  val |-> [t |-> "obj", op |-> "$in", arg |-> f.values]]>>)
    ELSE IF f.operation = "regex"
    THEN Query(<<[key |-> f.key,
                  val |-> [t |-> "obj", op |-> "$regex", arg |-> f.regexp]]>>)
    ELSE IF f.operation = "exists"
    THEN LET clause(op, arg) ==
                 Query(<<[key |-> f.key,
                          val |-> [t |-> "obj", op |-> op, arg |-> arg]]>>)
         IN IF f.exists
            THEN Query(<<[key |-> "$and",
                          val |-> [t |-> "arr",
                                   items |-> <<clause("$exists", Bool(TRUE)),
                                               clause("$ne", Null)>>]]>>)
            ELSE Query(<<[key |-> "$or",
                          val |-> [t |-> "arr",
                                   items |-> <<clause("$exists", Bool(FALSE)),
                                               clause("$eq", Null)>>]]>>)
    ELSE Query(<<[key |-> IF f.operation = "and" THEN "$and" ELSE "$or",
                  val |-> [t |-> "arr",
                           items |-> [i \in 1..Len(f.children) |->
                                         NativeShape(f.children[i])]]]>>)

\* C14: for every well-formed filter without not, filterToMongo returns
\* exactly the native shape: the empty query for null, {field: {$op:
\* payload}} for a leaf, {$and: [...]} / {$or: [...]} with the compiled
\* children in order, and the two-clause compounds for exists.
C14_NativeShape ==
    (fpc = "compiled" /\ NotFree(filter)) => compiled = NativeShape(filter)

\* C14 witness: an and of an exists leaf and a comparison has been compiled.
C14_Witness ==
    /\ fpc = "compiled"
    /\ filter = And(<<Exists("age", TRUE), Compare("lte", "age", Num(5))>>)
    /\ Len(Get(compiled, "$and").items) = 2

\* A leaf whose compiled form is a single plain-field clause.
PlainLeaf(f) ==
    f.operation \in {"eq", "ne", "gt", "lt", "gte", "lte", "in", "regex"}

\* C15: for a leaf compiled to a single plain-field clause, not(leaf)
\* compiles to {field: {$not: <the leaf's operator object>}}; in particular
\* not(in("status", ["a","b"])) compiles to {status: {$not: {$in: ["a","b"]}}}.
C15_NegatedLeaf ==
    /\ (fpc = "compiled" /\ filter.operation = "not" /\ PlainLeaf(filter.child)) =>
          compiled =
             Query(<<[key |-> filter.child.key,
                      val |-> [t |-> "obj", op |-> "$not",
                               arg |-> NativeShape(filter.child).entries[1].val]]>>)
    /\ (fpc = "compiled" /\ filter = Not(In("status", <<Str("a"), Str("b")>>))) =>
          compiled =
             Query(<<[key |-> "status",
                      val |-> [t |-> "obj", op |-> "$not",
                               arg |-> [t |-> "obj", op |-> "$in",
                                        arg |-> [t |-> "list",
                                                 items |-> <<Str("a"), Str("b")>>]]]]>>)

\* C15 witness: not(in("status", ["a","b"])) has been compiled.
C15_Witness ==
    /\ fpc = "compiled"
    /\ filter = Not(In("status", <<Str("a"), Str("b")>>))
    /\ HasKey(compiled, "status")

\* The field holds a usable value: it is present and not null.
HasValue(v) == v \notin {Missing, Null}

\* C16: over documents whose field is missing, null or holds a value, the
\* query compiled from exists(field, true) matches exactly the documents
\* where the field holds a non-null value, and the query compiled from
\* exists(field, false) exactly the others.
C16_ExistsSemantics ==
    (fpc = "compiled" /\ filter.operation = "exists") =>
        \A d \in Docs :
            Matches(compiled, d) <=>
                (IF filter.exists THEN HasValue(d[filter.key])
                                  ELSE ~HasValue(d[filter.key]))

\* C16 witness: exists("age", false) has been compiled, and its query
\* matches a document with a null age and one without age.
C16_Witness ==
    /\ fpc = "compiled"
    /\ filter = Exists("age", FALSE)
    /\ Matches(compiled, [age |-> Null, status |-> Str("a")])
    /\ Matches(compiled, [age |-> Missing, status |-> Str("a")])
    /\ ~Matches(compiled, [age |-> Num(5), status |-> Str("a")])

\* A filter tree: every node has a known tag, every and / or has children.
WellFormed(f) == f # NullFilter /\ ~Malformed(f)

\* C17: for every well-formed filter f, the null filter included, and every
\* document d, the query compiled from not(f), which is negateMongoQuery of
\* the query compiled from f, matches d exactly when the query compiled
\* from f does not.
C17_NegationComplements ==
    (fpc = "compiled" /\ negations = 1 /\ ~Malformed(filter)) =>
        /\ query = filterToMongo(Not(filter))
        /\ \A d \in Docs : Matches(query, d) <=> ~Matches(compiled, d)

\* The same for filter trees only: it holds of every filter but null.
NegationComplementsOnTrees ==
    (fpc = "compiled" /\ negations = 1 /\ WellFormed(filter)) =>
        /\ query = filterToMongo(Not(filter))
        /\ \A d \in Docs : Matches(query, d) <=> ~Matches(compiled, d)

(***************************************************************************)
(* MongoDriver.updateMany                                                  *)
(*                                                                         *)
(* The update descriptor is an object: the sequence of its entries in key  *)
(* order, each key once.  A value is a number, a string, null, or an       *)
(* object [t |-> "object", update |-> tag, value |-> v], where the tag     *)
(* "none" stands for an object without an update property.                 *)
(***************************************************************************)

\* Largest number of fields of an update descriptor.
MaxFields == 3

FieldNames == {"a", "b", "c", "d"}

Tagged(tag, v) == [t |-> "object", update |-> tag, value |-> v]

UpdateValues ==
    {Num(1), Str("x"), Null,
     Tagged("set", Num(2)), Tagged("inc", Num(3)),
     Tagged("mul", Num(4)), Tagged("none", Num(5))}

RECURSIVE DescriptorsOfLen(_)
\* The descriptors of n fields.
DescriptorsOfLen(n) ==
    IF n = 0 THEN {<<>>}
    ELSE {Append(u, [key |-> k, val |-> v]) :
             u \in DescriptorsOfLen(n - 1), k \in FieldNames, v \in UpdateValues}

DistinctKeys(u) ==
    \A i, j \in 1..Len(u) : u[i].key = u[j].key => i = j

Descriptors ==
    {u \in UNION {DescriptorsOfLen(n) : n \in 0..MaxFields} : DistinctKeys(u)}

\* typeof updated[key] === "object" && updated[key] !== null
IsObject(v) == v.t = "object"

UpdateStep_IncAsSet(st, key, val) ==
    IF IsObject(val) /\ val.update \in {"set", "inc"}
    THEN [st EXCEPT !.updateSet = Set(@, key, val.value), !.hasSet = TRUE]
    ELSE [st EXCEPT !.updateSet = Set(@, key, val), !.hasSet = TRUE]

\* The body of the loop over the keys of updated.
UpdateStep(st, key, val) ==
    IF IsObject(val)
    THEN IF val.update = "set"
         THEN [st EXCEPT !.updateSet = Set(@, key, val.value), !.hasSet = TRUE]
         ELSE IF val.update = "inc"
         THEN [st EXCEPT !.updateInc = Set(@, key, val.value), !.hasInc = TRUE]
         ELSE [st EXCEPT !.updateSet = Set(@, key, val), !.hasSet = TRUE]
    ELSE [st EXCEPT !.updateSet = Set(@, key, val), !.hasSet = TRUE]

RECURSIVE UpdateLoop(_, _, _)
\* for (const key of Object.keys(updated)), from entry i on.
UpdateLoop(u, i, st) ==
    IF i > Len(u) THEN st
    ELSE UpdateLoop(u, i + 1, UpdateStep(st, u[i].key, u[i].val))

\* The update documents given to db.updateMany by one call of updateMany:
\* none, or one.
UpdateDocuments(u) ==
    IF Len(u) = 0 THEN <<>>
    ELSE LET st == UpdateLoop(u, 1, [updateSet |-> EmptyQuery, hasSet |-> FALSE,
                                     updateInc |-> EmptyQuery, hasInc |-> FALSE])
         IN IF st.hasSet /\ st.hasInc
            THEN <<Query(<<[key |-> "$set", val |-> st.updateSet],
                           [key |-> "$inc", val |-> st.updateInc]>>)>>
            ELSE IF st.hasSet
            THEN <<Query(<<[key |-> "$set", val |-> st.updateSet]>>)>>
            ELSE IF st.hasInc
            THEN <<Query(<<[key |-> "$inc", val |-> st.updateInc]>>)>>
            ELSE <<>>

UpdateInit ==
    /\ upc = "start"
    /\ updated \in Descriptors
    /\ storeCall = <<>>

\* One call of updateMany(table, filter, updated).
UpdateMany ==
    /\ upc = "start"
    /\ storeCall' = UpdateDocuments(updated)
    /\ upc' = IF UpdateDocuments(updated) = <<>> THEN "returned" ELSE "called"
    /\ UNCHANGED <<updated, streamVars, filterVars, pairVars>>

InitUpdate == StreamIdle /\ FilterIdle /\ PairIdle /\ UpdateInit
NextUpdate == UpdateMany
SpecUpdate == InitUpdate /\ [][NextUpdate]_vars

\* The value the clause of an update document holds for a key, if any.
InClause(doc, clause, key) ==
    HasKey(doc, clause) /\ HasKey(Get(doc, clause), key)
ClauseValue(doc, clause, key) == Get(Get(doc, clause), key)
IsInc(v) == v.t = "object" /\ v.update = "inc"
IsSet(v) == v.t = "object" /\ v.update = "set"

\* C18: updateMany puts every field of the descriptor in exactly one
\* clause: a field tagged inc under $inc with its value, a field tagged set
\* under $set with its value, any other field under $set unchanged; the
\* store is called once, with the non-empty clauses only, and not at all
\* for an empty descriptor.
C18_UpdatePartition ==
    upc # "start" =>
        IF updated = <<>>
        THEN upc = "returned" /\ storeCall = <<>>
        ELSE /\ upc = "called"
             /\ Len(storeCall) = 1
             /\ LET doc == storeCall[1] IN
                /\ \A i \in 1..Len(updated) :
                      LET key == updated[i].key
                          val == updated[i].val
                      IN IF IsInc(val)
                         THEN /\ InClause(doc, "$inc", key)
                              /\ ClauseValue(doc, "$inc", key) = val.value
                              /\ ~InClause(doc, "$set", key)
                         ELSE /\ InClause(doc, "$set", key)
                              /\ ClauseValue(doc, "$set", key) =
                                    (IF IsSet(val) THEN val.value ELSE val)
                              /\ ~InClause(doc, "$inc", key)
                /\ \A i \in 1..Len(doc.entries) :
                      /\ doc.entries[i].key \in {"$set", "$inc"}
                      /\ doc.entries[i].val.entries # <<>>
                      /\ \A j \in 1..Len(doc.entries[i].val.entries) :
                            \E k \in 1..Len(updated) :
                               updated[k].key = doc.entries[i].val.entries[j].key

\* C18 witness: a descriptor with a set, an inc and an untagged field was
\* sent to the store with both clauses.
C18_Witness ==
    /\ upc = "called"
    /\ Len(updated) = 3
    /\ \E i \in 1..3 : IsInc(updated[i].val)
    /\ \E i \in 1..3 : IsSet(updated[i].val)
    /\ \E i \in 1..3 : updated[i].val = Tagged("mul", Num(4))
    /\ HasKey(storeCall[1], "$set") /\ HasKey(storeCall[1], "$inc")

====
